---- MODULE Spec2Model ----
(***************************************************************************)
(* Model of gptui's chat session: the Bubble Tea Model.Update state        *)
(* machine (pkg/chat tui), the completion client's CreateCompletion with   *)
(* its server-sent-event loop, and the goroutines (tea.Cmd) that connect   *)
(* them through the unbuffered events channel and the program's message    *)
(* channel (Spec); the history file written by one session and restored by *)
(* another (HistoryFileSpec); and the request builder of package rest      *)
(* (RestSpec).                                                             *)
(***************************************************************************)
EXTENDS Naturals, Sequences, FiniteSets, TLC

\* ---------------------------------------------------------------- bounds
MaxTurns == 2      \* accepted submits explored
MaxLines == 3      \* body lines the server sends in a session
MaxInput == 1      \* keys the textarea takes up in a session
MaxSaved == 2      \* Messages of a history written to a file
MaxContent == 2    \* runes of a Message of a history written to a file
MaxOptions == 2    \* options passed to one rest.Client.NewRequest

\* ------------------------------------------------------------- constants
textAreaHeight == 4
StatusOK == 200
Timeout == 60      \* rest.WithTimeout(time.Minute), in seconds

VARIABLES
    stream,        \* client.stream (configuration, fixed at construction)
    history,       \* client.history : sequence of Message
    textarea,      \* m.textarea.Value() : sequence of runes
    streamDeltas,  \* m.streamDeltas : sequence of runes
    multiline,     \* m.multiline
    waiting,       \* m.waiting
    err,           \* m.err (NoError or an error value)
    prog,          \* the tea.Program: "running", "quit" or "panic"
    calls,         \* one createCompletionCmd goroutine per accepted submit
    waiters,       \* waitEventsCmd goroutines blocked on <-client.events
    msgs,          \* values goroutines are handing to the program loop
    turnLen,       \* len(history) just before the last accepted submit
    seen,          \* stream events Update processed since the last submit
    typed,         \* keys the textarea has taken up
    token,         \* client.token (configuration)
    system,        \* client.system (configuration)
    requests,      \* the CompletionRequest of each accepted submit
    historyFile,   \* the session's history file: << >> or <<its content>>
    processed,     \* every stream event Update has processed
    viewport,      \* the content of m.viewport: a sequence of text pieces
    loaded,        \* client.history of a session started on historyFile
    request        \* a rest.Client.NewRequest call: its inputs and its result

vars == <<stream, history, textarea, streamDeltas, multiline, waiting, err,
          prog, calls, waiters, msgs, turnLen, seen, typed, token, system,
          requests, historyFile, processed, viewport, loaded, request>>

\* ------------------------------------------------------------ data types
Message(role, content) == [Role |-> role, Content |-> content]

StreamChoice(content, finish) == [Content |-> content, FinishReason |-> finish]

\* CompletionStreamResponse values a server can put on one data line
StreamEvents ==
    { <<StreamChoice(<<"a">>, "")>>,
      <<StreamChoice(<<"b">>, "length"), StreamChoice(<<"a">>, "stop")>>,
      <<StreamChoice(<<>>, "stop")>>,
      <<StreamChoice(<<"b">>, "stop")>>,
      << >> }

CompletionChoice(content, finish) ==
    [Message |-> Message("assistant", content), FinishReason |-> finish]

\* CompletionResponse values a server can answer a non-streaming call with
Responses ==
    { <<CompletionChoice(<<"a">>, "stop")>>,
      <<CompletionChoice(<<"a">>, "stop"), CompletionChoice(<<"b">>, "stop")>>,
      << >> }

NoChoices == << >>

\* a value travelling to the program loop (tea.Msg)
Msg(type, choices, e, t, i) ==
    [type |-> type, choices |-> choices, e |-> e, turn |-> t, seq |-> i]

\* a createCompletionCmd goroutine: st is where it stands ("start" before
\* Do, "reading" the body, "sending" on the events channel, "returned"),
\* ev the event it is sending, n the body lines it has read, wire the
\* events it has decoded so far, ret what it returned ("nil", "error",
\* "response")
Call(st, ev, n, wire, ret) ==
    [st |-> st, ev |-> ev, n |-> n, wire |-> wire, ret |-> ret]

\* settings the session can be started with: the API key and the system
\* prompt, each once empty and once set
Configs == { [token |-> << >>, system |-> <<"s">>],
             [token |-> <<"k">>, system |-> << >>] }

\* error values (the error interface): a kind and what the error carries
NoError == <<"nil">>
LayoutError == <<"terminal size too small">>
DecodeError == <<"json">>
ReadError == <<"read">>
HTTPError(code, body) == <<"status code", code, "body", body>>

\* ---------------------------------------------------------- the transcript
\* pieces of rendered text: the welcome text, a styled author name, a line
\* break, and what the Markdown renderer makes of a content
welcomeMessage == <<"welcome">>
userName == <<"You">>
chatGPTName == <<"ChatGPT">>
NewLine == <<"\n">>
Render(content) == <<"markdown", content>>

\* Model.renderMessages: the Messages of the roles user and assistant, each
\* as its author, a line break and its rendered content, joined by line
\* breaks; a Message of another role is left out
RECURSIVE renderMessages(_)
renderMessages(messages) ==
    IF Len(messages) = 0 THEN << >>
    ELSE LET renderedMessages ==
                 renderMessages(SubSeq(messages, 1, Len(messages) - 1))
             message == messages[Len(messages)]
             output == Render(message.Content)
             author == IF message.Role = "user" THEN userName ELSE chatGPTName
         IN IF message.Role \notin {"user", "assistant"}
            THEN renderedMessages
            ELSE (IF Len(renderedMessages) > 0
                  THEN Append(renderedMessages, NewLine)
                  ELSE renderedMessages)
                 \o <<author, NewLine, output>>

\* the output of the streaming case: the reply received so far
StreamOutput(deltas) == <<chatGPTName, NewLine, Render(deltas), NewLine>>

\* Model.View: the viewport, and under it the input editor with the help,
\* the spinner with the help, or the error
View ==
    [viewport |-> viewport,
     below |-> IF err = NoError
               THEN IF ~waiting THEN <<"textarea", "help">>
                    ELSE <<"spinner", "help">>
               ELSE <<"error">>]

Init ==
    /\ stream \in BOOLEAN
    /\ history = << >>
    /\ textarea = << >>
    /\ streamDeltas = << >>
    /\ multiline = FALSE
    /\ waiting = FALSE
    /\ err = NoError
    /\ prog = "running"
    /\ calls = << >>
    /\ waiters = 0
    /\ msgs = {}
    /\ turnLen = 0
    /\ seen = << >>
    /\ typed = 0
    /\ \E c \in Configs : token = c.token /\ system = c.system
    /\ requests = << >>
    /\ historyFile = << >>
    /\ processed = << >>
    /\ viewport = <<welcomeMessage>>
    /\ loaded = << >>
    /\ request = << >>


\* ------------------------------------------------------ pure helpers
\* what no step of a session changes: its settings, and the values of the
\* history-file and transport developments further down
config == <<stream, token, system, loaded, request>>

\* bubbles textarea.Update as called first in Model.Update: the enter key
\* splits the line at the cursor, a rune key inserts the rune
TextareaUpdate(value, k) ==
    IF k = "Send" THEN Append(value, "nl")
    ELSE IF k = "Rune" THEN Append(value, "h")
    ELSE value

Running == prog = "running"

\* the process ends (Run returns to main, or a goroutine panics): its
\* goroutines and the values they were handing over end with it
Exit(how) ==
    /\ prog' = how
    /\ calls' = [p \in DOMAIN calls |-> [st |-> "gone", ev |-> << >>, n |-> 0,
                                         wire |-> << >>, ret |-> ""]]
    /\ waiters' = 0
    /\ msgs' = {}

CompletionRequest(messages) == [Messages |-> messages, Stream |-> FALSE]

\* newCompletionRequest, called with client.history as it is at the call;
\* the entry of requests holds the body and what NewRequest makes of it
newCompletionRequest(hist, message) ==
    [body |-> CompletionRequest(
                  (IF Len(system) > 0 /\ Len(hist) = 0
                   THEN <<Message("system", system)>> ELSE << >>)
                  \o <<Message("user", message)>>),
     Authorization |-> << >>,
     Timeout |-> 0,
     sent |-> FALSE]

\* a NewRequest that leaves body.Stream as newCompletionRequest made it
NewRequestKeepsStream(r) ==
    [body |-> r.body,
     Authorization |-> <<"Bearer">> \o token,
     Timeout |-> Timeout,                 \* the one httpClient of the Client
     sent |-> TRUE]

\* Client.NewRequest followed by httpClient.Do: the request as handed to the
\* transport (the configured base URL parses), under the time limit the
\* transport was constructed with
NewRequest(r) ==
    [body |-> [r.body EXCEPT !.Stream = IF stream THEN TRUE ELSE @],
     Authorization |-> <<"Bearer">> \o token,
     Timeout |-> Timeout,                 \* the one httpClient of the Client
     sent |-> TRUE]

\* a string as encoding/json writes it between quotes: the quote, the
\* backslash and the line break are escaped, any other rune stands for itself
RECURSIVE Quote(_)
Quote(content) ==
    IF Len(content) = 0 THEN << >>
    ELSE LET r == Head(content)
         IN (IF r = "nl" THEN <<"\\", "n">>
             ELSE IF r \in {"\\", "\""} THEN <<"\\", r>>
             ELSE <<r>>) \o Quote(Tail(content))

\* the string encoding/json reads from between quotes
RECURSIVE Unquote(_)
Unquote(text) ==
    IF Len(text) = 0 THEN << >>
    ELSE IF Head(text) = "\\" /\ Len(text) > 1
    THEN <<IF text[2] = "n" THEN "nl" ELSE text[2]>>
         \o Unquote(SubSeq(text, 3, Len(text)))
    ELSE <<Head(text)>> \o Unquote(Tail(text))

\* a json.Marshal of client.history that writes the runes of a content as
\* they are
MarshalUnescaped(h) ==
    [i \in 1..Len(h) |-> [role |-> h[i].Role, content |-> h[i].Content]]

\* json.Marshal of client.history: a JSON array of objects with the keys of
\* Message's struct tags
Marshal(h) ==
    [i \in 1..Len(h) |-> [role |-> h[i].Role, content |-> Quote(h[i].Content)]]

\* json.Unmarshal into client.history
Unmarshal(data) ==
    [i \in 1..Len(data) |-> Message(data[i].role, Unquote(data[i].content))]

\* Model.saveHistory (the file system takes the write)
saveHistory(h) == <<Marshal(h)>>

\* Model.loadHistory of a file that exists and holds data
loadHistory(data) == Unmarshal(data)

\* --------------------------------------------------- Model.Update: keys
\* KeySend without the test of m.waiting
KeySendWhileWaiting ==
    /\ Running
    /\ LET value == TextareaUpdate(textarea, "Send") IN
       IF ~multiline
       THEN /\ Len(calls) < MaxTurns
            /\ history' = Append(history, Message("user", value))
            /\ requests' = Append(requests,
                                  newCompletionRequest(history', value))
            /\ calls' = Append(calls, Call("start", NoChoices, 0, << >>, ""))
            /\ waiters' = IF stream THEN waiters + 1 ELSE waiters
            /\ textarea' = << >>
            /\ waiting' = TRUE
            /\ turnLen' = Len(history)
            /\ seen' = << >>
            /\ viewport' = renderMessages(history')
            /\ UNCHANGED <<config, streamDeltas, multiline, err, prog, msgs,
                           typed, historyFile, processed>>
       ELSE /\ typed < MaxInput
            /\ typed' = typed + 1
            /\ textarea' = value
            /\ UNCHANGED <<config, viewport, history, streamDeltas, multiline, waiting,
                           err, prog, calls, waiters, msgs, turnLen, seen,
                           requests, historyFile, processed>>

\* KeySend building the request after the textarea is reset
KeySendResetsFirst ==
    /\ Running
    /\ LET value == TextareaUpdate(textarea, "Send") IN
       IF ~multiline /\ ~waiting
       THEN /\ Len(calls) < MaxTurns
            /\ history' = Append(history, Message("user", value))
            /\ requests' = Append(requests,
                                  newCompletionRequest(history', << >>))
            /\ calls' = Append(calls, Call("start", NoChoices, 0, << >>, ""))
            /\ waiters' = IF stream THEN waiters + 1 ELSE waiters
            /\ textarea' = << >>
            /\ waiting' = TRUE
            /\ turnLen' = Len(history)
            /\ seen' = << >>
            /\ viewport' = renderMessages(history')
            /\ UNCHANGED <<config, streamDeltas, multiline, err, prog, msgs,
                           typed, historyFile, processed>>
       ELSE /\ typed < MaxInput
            /\ typed' = typed + 1
            /\ textarea' = value
            /\ UNCHANGED <<config, viewport, history, streamDeltas, multiline, waiting,
                           err, prog, calls, waiters, msgs, turnLen, seen,
                           requests, historyFile, processed>>

\* KeySend without the test of m.multiline
KeySendInMultiline ==
    /\ Running
    /\ LET value == TextareaUpdate(textarea, "Send") IN
       IF ~waiting
       THEN /\ Len(calls) < MaxTurns
            /\ history' = Append(history, Message("user", value))
            /\ requests' = Append(requests,
                                  newCompletionRequest(history', value))
            /\ calls' = Append(calls, Call("start", NoChoices, 0, << >>, ""))
            /\ waiters' = IF stream THEN waiters + 1 ELSE waiters
            /\ textarea' = << >>
            /\ waiting' = TRUE
            /\ turnLen' = Len(history)
            /\ seen' = << >>
            /\ viewport' = renderMessages(history')
            /\ UNCHANGED <<config, streamDeltas, multiline, err, prog, msgs,
                           typed, historyFile, processed>>
       ELSE /\ typed < MaxInput
            /\ typed' = typed + 1
            /\ textarea' = value
            /\ UNCHANGED <<config, viewport, history, streamDeltas, multiline, waiting,
                           err, prog, calls, waiters, msgs, turnLen, seen,
                           requests, historyFile, processed>>

\* case key.Matches(msg, m.keys.Send)
KeySend ==
    /\ Running
    /\ LET value == TextareaUpdate(textarea, "Send") IN
       IF ~multiline /\ ~waiting
       THEN /\ Len(calls) < MaxTurns
            /\ history' = Append(history, Message("user", value))
            /\ requests' = Append(requests,
                                  newCompletionRequest(history', value))
            /\ calls' = Append(calls, Call("start", NoChoices, 0, << >>, ""))
            /\ waiters' = IF stream THEN waiters + 1 ELSE waiters
            /\ textarea' = << >>
            /\ waiting' = TRUE
            /\ turnLen' = Len(history)
            /\ seen' = << >>
            /\ viewport' = renderMessages(history')
            /\ UNCHANGED <<config, streamDeltas, multiline, err, prog, msgs,
                           typed, historyFile, processed>>
       ELSE /\ typed < MaxInput
            /\ typed' = typed + 1
            /\ textarea' = value
            /\ UNCHANGED <<config, viewport, history, streamDeltas, multiline, waiting,
                           err, prog, calls, waiters, msgs, turnLen, seen,
                           requests, historyFile, processed>>

\* a rune key: only the textarea consumes it
KeyRune ==
    /\ Running
    /\ typed < MaxInput
    /\ typed' = typed + 1
    /\ textarea' = TextareaUpdate(textarea, "Rune")
    /\ UNCHANGED <<config, viewport, history, streamDeltas, multiline, waiting, err,
                   prog, calls, waiters, msgs, turnLen, seen, requests,
                   historyFile, processed>>

\* case key.Matches(msg, m.keys.Multiline)
KeyMultiline ==
    /\ Running
    /\ multiline' = ~multiline
    /\ UNCHANGED <<config, viewport, history, textarea, streamDeltas, waiting, err,
                   prog, calls, waiters, msgs, turnLen, seen, typed,
                   requests, historyFile, processed>>

\* case key.Matches(msg, m.keys.Help) / m.keys.Esc: no session state
KeyHelp ==
    /\ Running
    /\ UNCHANGED <<config, viewport, history, textarea, streamDeltas, multiline,
                   waiting, err, prog, calls, waiters, msgs, turnLen,
                   seen, typed, requests, historyFile, processed>>

\* the quit key taken only while no call is outstanding
KeyQuitWhenIdle ==
    /\ Running
    /\ ~waiting
    /\ Exit("quit")
    /\ UNCHANGED <<config, viewport, history, textarea, streamDeltas, multiline,
                   waiting, err, turnLen, seen, typed, requests,
                   historyFile, processed>>

\* case key.Matches(msg, m.keys.Quit): tea.Quit makes the program loop return
KeyQuit ==
    /\ Running
    /\ Exit("quit")
    /\ UNCHANGED <<config, viewport, history, textarea, streamDeltas, multiline,
                   waiting, err, turnLen, seen, typed, requests,
                   historyFile, processed>>

\* a resize that fits taking the recorded error away
ResizeClearsError(h) ==
    /\ Running
    /\ err' = IF h <= 8 + textAreaHeight THEN LayoutError ELSE NoError
    /\ viewport' = IF h > 8 + textAreaHeight /\ ~waiting /\ Len(history) > 0
                   THEN renderMessages(history)     \* re-render
                   ELSE viewport
    /\ UNCHANGED <<config, history, textarea, streamDeltas, multiline,
                   waiting, prog, calls, waiters, msgs, turnLen, seen, typed,
                   requests, historyFile, processed>>

\* case tea.WindowSizeMsg
Resize(h) ==
    /\ Running
    /\ err' = IF h <= 8 + textAreaHeight THEN LayoutError ELSE err
    /\ viewport' = IF h > 8 + textAreaHeight /\ ~waiting /\ Len(history) > 0
                   THEN renderMessages(history)     \* re-render
                   ELSE viewport
    /\ UNCHANGED <<config, history, textarea, streamDeltas, multiline,
                   waiting, prog, calls, waiters, msgs, turnLen, seen, typed,
                   requests, historyFile, processed>>

\* case spinner.TickMsg
Tick ==
    /\ Running
    /\ UNCHANGED <<config, viewport, history, textarea, streamDeltas, multiline,
                   waiting, err, prog, calls, waiters, msgs, turnLen,
                   seen, typed, requests, historyFile, processed>>

\* ------------------------------------- Model.Update: network occurrences
\* Update returns normally: the program loop has consumed the value m
Taken(m) ==
    /\ msgs' = msgs \ {m}
    /\ UNCHANGED <<prog, calls>>

\* case CompletionResponse (a value, not a pointer)
OnCompletionResponse(m) ==
    IF Len(m.choices) = 0
    THEN /\ Exit("panic")                         \* msg.Choices[0]
         /\ UNCHANGED <<history, streamDeltas, waiting, err, seen,
                        historyFile, processed, viewport>>
    ELSE /\ waiting' = FALSE
         /\ history' = Append(history, m.choices[1].Message)
         /\ Taken(m)
         /\ viewport' = renderMessages(history')
         /\ UNCHANGED <<streamDeltas, err, waiters, seen, historyFile,
                        processed>>

\* the stream case writing every fragment to history as it arrives
OnStreamResponseAppendsFragments(m) ==
    IF Len(m.choices) = 0
    THEN /\ Exit("panic")
         /\ UNCHANGED <<history, streamDeltas, waiting, err, seen,
                        historyFile, processed, viewport>>
    ELSE LET choice == m.choices[1] IN
         /\ Taken(m)
         /\ seen' = Append(seen, m)
         /\ processed' = Append(processed, m)
         /\ IF choice.FinishReason = "stop"
            THEN /\ waiting' = FALSE
                 /\ streamDeltas' = << >>
                 /\ UNCHANGED <<history, err, waiters, viewport>>
                 /\ historyFile' = saveHistory(history')
            ELSE /\ waiters' = waiters + 1
                 /\ history' = Append(history,
                                      Message("assistant", choice.Content))
                 /\ streamDeltas' = streamDeltas \o choice.Content
                 /\ UNCHANGED <<waiting, err, historyFile, viewport>>

\* the stream case putting the finished Message in front of history
OnStreamResponsePrepends(m) ==
    IF Len(m.choices) = 0
    THEN /\ Exit("panic")
         /\ UNCHANGED <<history, streamDeltas, waiting, err, seen,
                        historyFile, processed, viewport>>
    ELSE LET choice == m.choices[1] IN
         /\ Taken(m)
         /\ seen' = Append(seen, m)
         /\ processed' = Append(processed, m)
         /\ IF choice.FinishReason = "stop"
            THEN /\ waiting' = FALSE
                 /\ history' = <<Message("assistant", streamDeltas)>>
                               \o history
                 /\ streamDeltas' = << >>
                 /\ historyFile' = saveHistory(history')
                 /\ UNCHANGED <<err, waiters, viewport>>
            ELSE /\ waiters' = waiters + 1
                 /\ streamDeltas' = streamDeltas \o choice.Content
                 /\ UNCHANGED <<history, waiting, err, historyFile>>
                 /\ viewport' = IF Len(choice.Content) > 0
                                THEN renderMessages(history)
                                     \o StreamOutput(streamDeltas')
                                ELSE viewport

\* the stream case putting each fragment in front of the scratch buffer
OnStreamResponseReverses(m) ==
    IF Len(m.choices) = 0
    THEN /\ Exit("panic")
         /\ UNCHANGED <<history, streamDeltas, waiting, err, seen,
                        historyFile, processed, viewport>>
    ELSE LET choice == m.choices[1] IN
         /\ Taken(m)
         /\ seen' = Append(seen, m)
         /\ processed' = Append(processed, m)
         /\ IF choice.FinishReason = "stop"
            THEN /\ waiting' = FALSE
                 /\ history' = Append(history,
                                      Message("assistant", streamDeltas))
                 /\ streamDeltas' = << >>
                 /\ historyFile' = saveHistory(history')
                 /\ UNCHANGED <<err, waiters, viewport>>
            ELSE /\ waiters' = waiters + 1
                 /\ streamDeltas' = choice.Content \o streamDeltas
                 /\ UNCHANGED <<history, waiting, err, historyFile>>
                 /\ viewport' = IF Len(choice.Content) > 0
                                THEN renderMessages(history)
                                     \o StreamOutput(streamDeltas')
                                ELSE viewport

\* the stream case arming two waits after a non-terminal event
OnStreamResponseWaitsTwice(m) ==
    IF Len(m.choices) = 0
    THEN /\ Exit("panic")
         /\ UNCHANGED <<history, streamDeltas, waiting, err, seen,
                        historyFile, processed, viewport>>
    ELSE LET choice == m.choices[1] IN
         /\ Taken(m)
         /\ seen' = Append(seen, m)
         /\ processed' = Append(processed, m)
         /\ IF choice.FinishReason = "stop"
            THEN /\ waiting' = FALSE
                 /\ history' = Append(history,
                                      Message("assistant", streamDeltas))
                 /\ streamDeltas' = << >>
                 /\ historyFile' = saveHistory(history')
                 /\ UNCHANGED <<err, waiters, viewport>>
            ELSE /\ waiters' = waiters + 2
                 /\ streamDeltas' = streamDeltas \o choice.Content
                 /\ UNCHANGED <<history, waiting, err, historyFile>>
                 /\ viewport' = IF Len(choice.Content) > 0
                                THEN renderMessages(history)
                                     \o StreamOutput(streamDeltas')
                                ELSE viewport

\* the stream case arming a wait after the terminal event too
OnStreamResponseRearmsOnStop(m) ==
    IF Len(m.choices) = 0
    THEN /\ Exit("panic")
         /\ UNCHANGED <<history, streamDeltas, waiting, err, seen,
                        historyFile, processed, viewport>>
    ELSE LET choice == m.choices[1] IN
         /\ Taken(m)
         /\ seen' = Append(seen, m)
         /\ processed' = Append(processed, m)
         /\ IF choice.FinishReason = "stop"
            THEN /\ waiting' = FALSE
                 /\ history' = Append(history,
                                      Message("assistant", streamDeltas))
                 /\ streamDeltas' = << >>
                 /\ historyFile' = saveHistory(history')
                 /\ waiters' = waiters + 1
                 /\ UNCHANGED <<err, viewport>>
            ELSE /\ waiters' = waiters + 1
                 /\ streamDeltas' = IF Len(choice.Content) > 0
                                    THEN streamDeltas \o choice.Content
                                    ELSE streamDeltas
                 /\ UNCHANGED <<history, waiting, err, historyFile>>
                 /\ viewport' = IF Len(choice.Content) > 0
                                THEN renderMessages(history)
                                     \o StreamOutput(streamDeltas')
                                ELSE viewport

\* the stream case adding each fragment to what the viewport shows
OnStreamResponseExtendsView(m) ==
    IF Len(m.choices) = 0
    THEN /\ Exit("panic")
         /\ UNCHANGED <<history, streamDeltas, waiting, err, seen,
                        historyFile, processed, viewport>>
    ELSE LET choice == m.choices[1] IN
         /\ Taken(m)
         /\ seen' = Append(seen, m)
         /\ processed' = Append(processed, m)
         /\ IF choice.FinishReason = "stop"
            THEN /\ waiting' = FALSE
                 /\ history' = Append(history,
                                      Message("assistant", streamDeltas))
                 /\ streamDeltas' = << >>
                 /\ historyFile' = saveHistory(history')
                 /\ UNCHANGED <<err, waiters, viewport>>
            ELSE /\ waiters' = waiters + 1
                 /\ streamDeltas' = IF Len(choice.Content) > 0
                                    THEN streamDeltas \o choice.Content
                                    ELSE streamDeltas
                 /\ UNCHANGED <<history, waiting, err, historyFile>>
                 /\ viewport' = IF Len(choice.Content) > 0
                                THEN Append(viewport, Render(choice.Content))
                                ELSE viewport

\* the stream case reading the last candidate of the event
OnStreamResponseTakesLast(m) ==
    IF Len(m.choices) = 0
    THEN /\ Exit("panic")
         /\ UNCHANGED <<history, streamDeltas, waiting, err, seen,
                        historyFile, processed, viewport>>
    ELSE LET choice == m.choices[Len(m.choices)] IN
         /\ Taken(m)
         /\ seen' = Append(seen, m)
         /\ processed' = Append(processed, m)
         /\ IF choice.FinishReason = "stop"
            THEN /\ waiting' = FALSE
                 /\ history' = Append(history,
                                      Message("assistant", streamDeltas))
                 /\ streamDeltas' = << >>
                 /\ historyFile' = saveHistory(history')
                 /\ UNCHANGED <<err, waiters, viewport>>
            ELSE /\ waiters' = waiters + 1
                 /\ streamDeltas' = IF Len(choice.Content) > 0
                                    THEN streamDeltas \o choice.Content
                                    ELSE streamDeltas
                 /\ UNCHANGED <<history, waiting, err, historyFile>>
                 /\ viewport' = IF Len(choice.Content) > 0
                                THEN renderMessages(history)
                                     \o StreamOutput(streamDeltas')
                                ELSE viewport

\* the stream case adding the content of the terminal event to the Message
OnStreamResponseKeepsTerminalContent(m) ==
    IF Len(m.choices) = 0
    THEN /\ Exit("panic")
         /\ UNCHANGED <<history, streamDeltas, waiting, err, seen,
                        historyFile, processed, viewport>>
    ELSE LET choice == m.choices[1] IN
         /\ Taken(m)
         /\ seen' = Append(seen, m)
         /\ processed' = Append(processed, m)
         /\ IF choice.FinishReason = "stop"
            THEN /\ waiting' = FALSE
                 /\ history' = Append(history,
                                      Message("assistant",
                                              streamDeltas \o choice.Content))
                 /\ streamDeltas' = << >>
                 /\ historyFile' = saveHistory(history')
                 /\ UNCHANGED <<err, waiters, viewport>>
            ELSE /\ waiters' = waiters + 1
                 /\ streamDeltas' = IF Len(choice.Content) > 0
                                    THEN streamDeltas \o choice.Content
                                    ELSE streamDeltas
                 /\ UNCHANGED <<history, waiting, err, historyFile>>
                 /\ viewport' = IF Len(choice.Content) > 0
                                THEN renderMessages(history)
                                     \o StreamOutput(streamDeltas')
                                ELSE viewport

\* case CompletionStreamResponse
OnCompletionStreamResponse(m) ==
    IF Len(m.choices) = 0
    THEN /\ Exit("panic")                         \* msg.Choices[0]
         /\ UNCHANGED <<history, streamDeltas, waiting, err, seen,
                        historyFile, processed, viewport>>
    ELSE LET choice == m.choices[1] IN
         /\ Taken(m)
         /\ seen' = Append(seen, m)
         /\ processed' = Append(processed, m)
         /\ IF choice.FinishReason = "stop"
            THEN /\ waiting' = FALSE
                 /\ history' = Append(history,
                                      Message("assistant", streamDeltas))
                 /\ streamDeltas' = << >>
                 /\ historyFile' = saveHistory(history')
                 /\ UNCHANGED <<err, waiters, viewport>>
            ELSE /\ waiters' = waiters + 1        \* waitEventsCmd again
                 /\ streamDeltas' = IF Len(choice.Content) > 0
                                    THEN streamDeltas \o choice.Content
                                    ELSE streamDeltas
                 /\ UNCHANGED <<history, waiting, err, historyFile>>
                 /\ viewport' = IF Len(choice.Content) > 0
                                THEN renderMessages(history)
                                     \o StreamOutput(streamDeltas')
                                ELSE viewport

\* the error case taking the submitted user Message back
OnErrorRollsBack(m) ==
    /\ err' = m.e
    /\ history' = SubSeq(history, 1, Len(history) - 1)
    /\ Taken(m)
    /\ UNCHANGED <<streamDeltas, waiting, waiters, seen, historyFile,
                   processed, viewport>>

\* case error
OnError(m) ==
    /\ err' = m.e
    /\ Taken(m)
    /\ UNCHANGED <<history, streamDeltas, waiting, waiters, seen,
                   historyFile, processed, viewport>>

\* the program loop takes one value off its message channel and calls Update
Update(m) ==
    /\ Running
    /\ m \in msgs
    /\ CASE m.type = "CompletionResponse" -> OnCompletionResponse(m)
         [] m.type = "CompletionStreamResponse" -> OnCompletionStreamResponse(m)
         [] m.type = "error" -> OnError(m)
         [] OTHER ->                      \* no case of the type switch
                /\ Taken(m)
                /\ UNCHANGED <<history, streamDeltas, waiting, err, waiters,
                               seen, historyFile, processed, viewport>>
    /\ UNCHANGED <<config, textarea, multiline, turnLen, typed, requests>>

\* --------------------------------------- createCompletionCmd goroutines
Returned(c, ret) == Call("returned", NoChoices, c.n, c.wire, ret)

RECURSIVE SumN(_)
SumN(k) == IF k = 0 THEN 0 ELSE calls[k].n + SumN(k - 1)

\* lines read from streaming bodies so far
LinesRead == SumN(Len(calls))

\* Do returns (nil, err): no response was obtained
TransportFailure == 0

\* what the transport hands back for one request: no response at all, or a
\* response with a status code
Outcomes == {TransportFailure, StatusOK, 429}

\* bodies of a response whose status is not 200
Bodies == {"rate limited"}

\* a CreateCompletion that reports a status other than 200 without the body
DoDropsBody(p, outcome) ==
    /\ Running
    /\ p \in DOMAIN calls
    /\ calls[p].st = "start"
    /\ requests' = [requests EXCEPT ![p] = NewRequest(@)]
    /\ IF outcome = TransportFailure
       THEN \* Do returns (nil, err) and the deferred resp.Body.Close()
            \* dereferences the nil response
            Exit("panic")
       ELSE IF outcome # StatusOK
       THEN /\ calls' = [calls EXCEPT ![p] = Returned(@, "error")]
            /\ \/ \* io.ReadAll fails
                  msgs' = msgs \cup {Msg("error", NoChoices, ReadError, p, 0)}
               \/ \E body \in Bodies :
                    msgs' = msgs \cup {Msg("error", NoChoices,
                                           HTTPError(outcome, ""), p, 0)}
            /\ UNCHANGED <<prog, waiters>>
       ELSE IF ~stream
       THEN /\ \/ \* json.Unmarshal of the body fails
                  /\ calls' = [calls EXCEPT ![p] = Returned(@, "error")]
                  /\ msgs' = msgs \cup
                               {Msg("error", NoChoices, DecodeError, p, 0)}
               \/ \* return &ret: the Msg is a *CompletionResponse
                  /\ calls' = [calls EXCEPT ![p] = Returned(@, "response")]
                  /\ \E r \in Responses :
                       msgs' = msgs \cup
                                 {Msg("*CompletionResponse", r, NoError, p, 0)}
            /\ UNCHANGED <<prog, waiters>>
       ELSE /\ calls' = [calls EXCEPT ![p].st = "reading"]
            /\ UNCHANGED <<msgs, prog, waiters>>
    /\ UNCHANGED <<config, viewport, history, textarea, streamDeltas, multiline,
                   waiting, err, turnLen, seen, typed, historyFile,
                   processed>>

\* a CreateCompletion that sends the request again after a failure status
DoRetries(p, outcome) ==
    /\ Running
    /\ p \in DOMAIN calls
    /\ calls[p].st = "start"
    /\ requests' = [requests EXCEPT ![p] = NewRequest(@)]
    /\ IF outcome = TransportFailure
       THEN \* Do returns (nil, err) and the deferred resp.Body.Close()
            \* dereferences the nil response
            Exit("panic")
       ELSE IF outcome # StatusOK
       THEN UNCHANGED <<calls, msgs, prog, waiters>>
       ELSE IF ~stream
       THEN /\ \/ \* json.Unmarshal of the body fails
                  /\ calls' = [calls EXCEPT ![p] = Returned(@, "error")]
                  /\ msgs' = msgs \cup
                               {Msg("error", NoChoices, DecodeError, p, 0)}
               \/ \* return &ret: the Msg is a *CompletionResponse
                  /\ calls' = [calls EXCEPT ![p] = Returned(@, "response")]
                  /\ \E r \in Responses :
                       msgs' = msgs \cup
                                 {Msg("*CompletionResponse", r, NoError, p, 0)}
            /\ UNCHANGED <<prog, waiters>>
       ELSE /\ calls' = [calls EXCEPT ![p].st = "reading"]
            /\ UNCHANGED <<msgs, prog, waiters>>
    /\ UNCHANGED <<config, viewport, history, textarea, streamDeltas, multiline,
                   waiting, err, turnLen, seen, typed, historyFile,
                   processed>>

\* Client.CreateCompletion up to the status check, and the whole
\* non-streaming path, for one outcome of the transport
Do(p, outcome) ==
    /\ Running
    /\ p \in DOMAIN calls
    /\ calls[p].st = "start"
    /\ requests' = [requests EXCEPT ![p] = NewRequest(@)]
    /\ IF outcome = TransportFailure
       THEN \* Do returns (nil, err) and the deferred resp.Body.Close()
            \* dereferences the nil response
            Exit("panic")
       ELSE IF outcome # StatusOK
       THEN /\ calls' = [calls EXCEPT ![p] = Returned(@, "error")]
            /\ \/ \* io.ReadAll fails
                  msgs' = msgs \cup {Msg("error", NoChoices, ReadError, p, 0)}
               \/ \E body \in Bodies :
                    msgs' = msgs \cup {Msg("error", NoChoices,
                                           HTTPError(outcome, body), p, 0)}
            /\ UNCHANGED <<prog, waiters>>
       ELSE IF ~stream
       THEN /\ \/ \* json.Unmarshal of the body fails
                  /\ calls' = [calls EXCEPT ![p] = Returned(@, "error")]
                  /\ msgs' = msgs \cup
                               {Msg("error", NoChoices, DecodeError, p, 0)}
               \/ \* return &ret: the Msg is a *CompletionResponse
                  /\ calls' = [calls EXCEPT ![p] = Returned(@, "response")]
                  /\ \E r \in Responses :
                       msgs' = msgs \cup
                                 {Msg("*CompletionResponse", r, NoError, p, 0)}
            /\ UNCHANGED <<prog, waiters>>
       ELSE /\ calls' = [calls EXCEPT ![p].st = "reading"]
            /\ UNCHANGED <<msgs, prog, waiters>>
    /\ UNCHANGED <<config, viewport, history, textarea, streamDeltas, multiline,
                   waiting, err, turnLen, seen, typed, historyFile,
                   processed>>

CallDo(p) == \E outcome \in Outcomes : Do(p, outcome)

\* what scanner.Scan and the tests on the line find: the end of the body, a
\* read error (Scan returns false, scanner.Err() holds the error), the
\* "[DONE]" sentinel, a line without the "data:" prefix, data that does not
\* decode, or an event
Line(kind, ev) == [kind |-> kind, ev |-> ev]

Lines == { Line(k, NoChoices) : k \in {"eof", "ioerr", "done", "comment", "bad"} }
         \cup { Line("event", e) : e \in StreamEvents }

\* a scanner loop that skips the sentinel like any other line
ScanIgnoresDone(p, line) ==
    /\ Running
    /\ p \in DOMAIN calls
    /\ calls[p].st = "reading"
    /\ CASE line.kind \in {"eof", "ioerr"} ->
              /\ calls' = [calls EXCEPT ![p] = Returned(@, "nil")]
              /\ UNCHANGED msgs
         [] line.kind \in {"comment", "done"} ->
              /\ LinesRead < MaxLines
              /\ calls' = [calls EXCEPT ![p].n = @ + 1]
              /\ UNCHANGED msgs
         [] line.kind = "bad" ->
              /\ LinesRead < MaxLines
              /\ calls' = [calls EXCEPT ![p] = Returned(@, "error")]
              /\ msgs' = msgs \cup {Msg("error", NoChoices, DecodeError, p, 0)}
         [] line.kind = "event" ->
              /\ LinesRead < MaxLines
              /\ calls' = [calls EXCEPT ![p] =
                            Call("sending", line.ev, @.n + 1,
                                 Append(@.wire, line.ev), "")]
              /\ UNCHANGED msgs
    /\ UNCHANGED <<config, viewport, history, textarea, streamDeltas, multiline,
                   waiting, err, prog, waiters, turnLen, seen, typed,
                   requests, historyFile, processed>>

\* a scanner loop that skips data it cannot decode and reads on
ScanSkipsBadData(p, line) ==
    /\ Running
    /\ p \in DOMAIN calls
    /\ calls[p].st = "reading"
    /\ CASE line.kind \in {"eof", "ioerr", "done"} ->
              /\ calls' = [calls EXCEPT ![p] = Returned(@, "nil")]
              /\ UNCHANGED msgs
         [] line.kind \in {"comment", "bad"} ->
              /\ LinesRead < MaxLines
              /\ calls' = [calls EXCEPT ![p].n = @ + 1]
              /\ UNCHANGED msgs
         [] line.kind = "event" ->
              /\ LinesRead < MaxLines
              /\ calls' = [calls EXCEPT ![p] =
                            Call("sending", line.ev, @.n + 1,
                                 Append(@.wire, line.ev), "")]
              /\ UNCHANGED msgs
    /\ UNCHANGED <<config, viewport, history, textarea, streamDeltas, multiline,
                   waiting, err, prog, waiters, turnLen, seen, typed,
                   requests, historyFile, processed>>

\* a scanner loop that adds the fragment to the scratch buffer itself
ScanWritesScratch(p, line) ==
    /\ Running
    /\ p \in DOMAIN calls
    /\ calls[p].st = "reading"
    /\ CASE line.kind \in {"eof", "ioerr", "done"} ->
              /\ calls' = [calls EXCEPT ![p] = Returned(@, "nil")]
              /\ UNCHANGED msgs
         [] line.kind = "comment" ->
              /\ LinesRead < MaxLines
              /\ calls' = [calls EXCEPT ![p].n = @ + 1]
              /\ UNCHANGED msgs
         [] line.kind = "bad" ->
              /\ LinesRead < MaxLines
              /\ calls' = [calls EXCEPT ![p] = Returned(@, "error")]
              /\ msgs' = msgs \cup {Msg("error", NoChoices, DecodeError, p, 0)}
         [] line.kind = "event" ->
              /\ LinesRead < MaxLines
              /\ calls' = [calls EXCEPT ![p] =
                            Call("sending", line.ev, @.n + 1,
                                 Append(@.wire, line.ev), "")]
              /\ UNCHANGED msgs
    /\ streamDeltas' = IF line.kind = "event" /\ Len(line.ev) > 0
                       THEN streamDeltas \o line.ev[1].Content
                       ELSE streamDeltas
    /\ UNCHANGED <<config, viewport, history, textarea, multiline,
                   waiting, err, prog, waiters, turnLen, seen, typed,
                   requests, historyFile, processed>>

\* one iteration of the scanner loop of the streaming path, for one line
Scan(p, line) ==
    /\ Running
    /\ p \in DOMAIN calls
    /\ calls[p].st = "reading"
    /\ CASE line.kind \in {"eof", "ioerr", "done"} ->      \* return nil, nil
              /\ calls' = [calls EXCEPT ![p] = Returned(@, "nil")]
              /\ UNCHANGED msgs
         [] line.kind = "comment" ->
              /\ LinesRead < MaxLines
              /\ calls' = [calls EXCEPT ![p].n = @ + 1]
              /\ UNCHANGED msgs
         [] line.kind = "bad" ->                  \* json.Unmarshal fails
              /\ LinesRead < MaxLines
              /\ calls' = [calls EXCEPT ![p] = Returned(@, "error")]
              /\ msgs' = msgs \cup {Msg("error", NoChoices, DecodeError, p, 0)}
         [] line.kind = "event" ->                \* about to send on c.events
              /\ LinesRead < MaxLines
              /\ calls' = [calls EXCEPT ![p] =
                            Call("sending", line.ev, @.n + 1,
                                 Append(@.wire, line.ev), "")]
              /\ UNCHANGED msgs
    /\ UNCHANGED <<config, viewport, history, textarea, streamDeltas, multiline,
                   waiting, err, prog, waiters, turnLen, seen, typed,
                   requests, historyFile, processed>>

CallScan(p) == \E line \in Lines : Scan(p, line)

\* c.events <- streamResp meets a <-client.events of some waitEventsCmd
ChanSend(p) ==
    /\ Running
    /\ p \in DOMAIN calls
    /\ calls[p].st = "sending"
    /\ waiters > 0
    /\ waiters' = waiters - 1
    /\ msgs' = msgs \cup {Msg("CompletionStreamResponse", calls[p].ev,
                              NoError, p, Len(calls[p].wire))}
    /\ calls' = [calls EXCEPT ![p] = Call("reading", NoChoices, @.n, @.wire, "")]
    /\ UNCHANGED <<config, viewport, history, textarea, streamDeltas, multiline,
                   waiting, err, prog, turnLen, seen, typed, requests,
                   historyFile, processed>>

Heights == {10, 24}

Next ==
    \/ KeySend
    \/ KeyRune
    \/ KeyMultiline
    \/ KeyHelp
    \/ KeyQuit
    \/ \E h \in Heights : Resize(h)
    \/ Tick
    \/ \E m \in msgs : Update(m)
    \/ \E p \in 1..MaxTurns : CallDo(p)
    \/ \E p \in 1..MaxTurns : CallScan(p)
    \/ \E p \in 1..MaxTurns : ChanSend(p)

Spec == Init /\ [][Next]_vars

\* ------------------------------------------------------------ properties
IsPrefix(s, t) == /\ Len(s) <= Len(t)
                  /\ \A i \in 1..Len(s) : s[i] = t[i]

\* concatenation of the first candidates' delta contents of a sequence of
\* stream events
RECURSIVE CatContent(_)
CatContent(evs) ==
    IF Len(evs) = 0 THEN << >>
    ELSE (IF Len(Head(evs)) = 0 THEN << >> ELSE Head(evs)[1].Content)
         \o CatContent(Tail(evs))

\* the events (candidate lists) of a sequence of processed stream messages
Choices(ms) == [i \in 1..Len(ms) |-> ms[i].choices]

\* the turn in progress or last ended, and its goroutine
Turn == Len(calls)

\* C1: in non-streaming mode, when Update is handed the value a successful
\* call returned, with at least one candidate, it appends the first
\* candidate's assistant Message to history and leaves Waiting for Idle.
C1_ResponseCompletesTurn ==
    [][\A m \in msgs :
         (Update(m) /\ ~stream /\ m.type = "*CompletionResponse"
            /\ Len(m.choices) > 0 /\ waiting)
         => /\ history' = Append(history, m.choices[1].Message)
            /\ ~waiting']_vars

\* C2: in streaming mode, once the call of the first turn has returned after
\* the end of a body of well-formed events and every event has been
\* processed, history holds the user Message followed by exactly one assistant
\* Message whose content is the concatenation of all the deltas.
C2_StreamCommitsConcatenation ==
    (/\ stream /\ Turn = 1 /\ prog = "running"
     /\ calls[1].ret = "nil" /\ msgs = {}
     /\ Len(calls[1].wire) > 0
     /\ \A i \in 1..Len(calls[1].wire) : Len(calls[1].wire[i]) > 0
     /\ Len(seen) = Len(calls[1].wire))
    => /\ Len(history) = 2
       /\ history[2] = Message("assistant", CatContent(calls[1].wire))
       /\ ~waiting

\* C3: an error processed while a turn is outstanding is recorded, leaves
\* history unchanged and returns the mode to Idle.
C3_ErrorReturnsToIdle ==
    [][\A m \in msgs :
         (Update(m) /\ m.type = "error" /\ waiting)
         => /\ err' = m.e
            /\ history' = history
            /\ ~waiting']_vars

\* C4: when a turn fails (an error is processed while it is outstanding),
\* history is what it was before the turn plus exactly the submitted user
\* Message: nothing is rolled back and no assistant Message is appended.
C4_FailedTurnKeepsUserMessage ==
    [][\A m \in msgs :
         (Update(m) /\ m.type = "error" /\ waiting)
         => /\ Len(history') = turnLen + 1
            /\ history'[turnLen + 1].Role = "user"
            /\ history' = history]_vars

\* the first turn has failed with an HTTP or decode error and is still shown
\* as outstanding
C4_Witness ==
    /\ Turn = 1 /\ waiting /\ err \in {DecodeError} \cup {HTTPError(429, b) : b \in Bodies}
    /\ calls[1].ret = "error"
    /\ Len(history) = 1 /\ history[1].Role = "user"

\* C5: history never receives a fragment: a step of a streaming session
\* changes history only by appending the submitted user Message, or, when a
\* terminal event is processed, by appending one assistant Message that is
\* the whole scratch buffer, which is emptied in the same step; a
\* non-terminal event leaves history alone.
C5_NoPartialMessageInHistory ==
    [][stream =>
         \/ history' = history
         \/ /\ KeySend
            /\ history' = Append(history, Message("user",
                                   TextareaUpdate(textarea, "Send")))
            /\ streamDeltas' = streamDeltas
         \/ /\ \E m \in msgs : /\ Update(m)
                               /\ m.type = "CompletionStreamResponse"
                               /\ m.choices[1].FinishReason = "stop"
            /\ history' = Append(history, Message("assistant", streamDeltas))
            /\ streamDeltas' = << >>
            /\ ~waiting']_vars

\* a streamed answer of two fragments has been committed as one Message
C5_Witness ==
    /\ stream /\ Len(history) = 2
    /\ history[2] = Message("assistant", <<"a", "b">>)
    /\ streamDeltas = << >>

\* C6: history is append-only: every step leaves the history it started from
\* as a prefix of the history it ends with.
C6_HistoryAppendOnly == [][IsPrefix(history, history')]_vars

\* two turns have been completed
C6_Witness ==
    /\ Len(history) = 4
    /\ history[2].Role = "assistant" /\ history[4].Role = "assistant"

\* the stream messages of seen that call p produced
RECURSIVE FromCall(_, _)
FromCall(ms, p) ==
    IF Len(ms) = 0 THEN << >>
    ELSE (IF Head(ms).turn = p THEN <<Head(ms)>> ELSE << >>)
         \o FromCall(Tail(ms), p)

\* C7: while a streaming turn of the running program has processed no terminal
\* event (events an earlier call sent count as processed in the turn), the scratch
\* buffer is the concatenation, in order, of the delta contents of the events
\* processed in the turn, and the events of the turn's call were processed in
\* wire order, none dropped or duplicated.
C7_ScratchIsOrderedConcatenation ==
    (Running /\ stream /\ waiting)
    => /\ streamDeltas = CatContent(Choices(seen))
       /\ LET own == FromCall(seen, Turn) IN
          \A i \in 1..Len(own) : /\ own[i].seq = i
                                 /\ own[i].choices = calls[Turn].wire[i]

\* two different fragments of the turn's stream have been processed
C7_Witness ==
    /\ Running /\ stream /\ waiting /\ Len(seen) = 2
    /\ streamDeltas = <<"a", "b">>

\* the network call of the current turn has been started and has not returned
Outstanding == Turn > 0 /\ calls[Turn].st # "returned"

\* C8: while the program runs, the waiting flag is set exactly when the network call of the current
\* turn is outstanding.
C8_WaitingIffCallOutstanding == Running => (waiting <=> Outstanding)

\* C9: a submit while the mode is not Idle appends nothing to history and
\* starts no network call or wait, and a call is only ever started from Idle.
C9_NoSubmitWhileWaiting ==
    [][/\ (KeySend /\ waiting) =>
            /\ history' = history
            /\ calls' = calls
            /\ waiters' = waiters
            /\ msgs' = msgs
            /\ waiting'
       /\ (calls' # calls /\ Len(calls') > Len(calls)) => ~waiting]_vars

\* the send key was pressed during the first turn: the only key the textarea
\* took up is that enter, after the Reset of the accepted submit
C9_Witness ==
    /\ Turn = 1 /\ waiting /\ typed = 1 /\ textarea = <<"nl">>
    /\ Len(history) = 1

\* C10: a response or stream event with zero candidates is recorded as an
\* error; the program keeps running.
C10_EmptyResponseIsError ==
    [][\A m \in msgs :
         (Update(m) /\ Len(m.choices) = 0
            /\ m.type \in {"CompletionStreamResponse", "*CompletionResponse"})
         => /\ err' # NoError
            /\ prog' = "running"]_vars

\* C11: when the transport obtains no response for a call, the call hands an
\* error occurrence to the program loop and the program keeps running.
C11_TransportFailureIsRecorded ==
    [][\A p \in 1..MaxTurns :
         Do(p, TransportFailure)
         => /\ prog' = "running"
            /\ \E m \in msgs' \ msgs : m.type = "error" /\ m.turn = p]_vars

\* C12: with no API token configured, no request is ever handed to the
\* transport (and the submitted user Message is in history all the same).
C12_NoTokenNoRequest ==
    Len(token) = 0
    => /\ \A p \in DOMAIN requests : ~requests[p].sent
       /\ Len(requests) > 0 => Len(history) > 0

\* the stream messages the step hands to the program loop
NewStreamMsgs == { m \in msgs' \ msgs : m.type = "CompletionStreamResponse" }

\* C13: a response with a status other than 200, whose body is read, makes the
\* call return an error carrying that status and body (in either mode); the
\* call decodes and delivers no stream event, and processing the error
\* leaves history as it was, the submitted user Message its last addition.
C13_HTTPErrorCarriesStatusAndBody ==
    [][/\ \A p \in 1..MaxTurns : \A o \in Outcomes \ {TransportFailure, StatusOK} :
            Do(p, o)
            => /\ calls'[p].st = "returned" /\ calls'[p].ret = "error"
               /\ calls'[p].wire = << >>
               /\ history' = history
               /\ NewStreamMsgs = {}
               /\ \E m \in msgs' \ msgs :
                     /\ msgs' = msgs \cup {m}
                     /\ m.type = "error" /\ m.turn = p
                     /\ \/ m.e = ReadError
                        \/ \E b \in Bodies : m.e = HTTPError(o, b)
       /\ \A m \in msgs :
            (Update(m) /\ m.type = "error" /\ m.e[1] = "status code")
            => /\ history' = history
               /\ err' = m.e
               /\ \A x \in msgs' : ~(x.type = "CompletionStreamResponse"
                                     /\ x.turn = m.turn)]_vars

\* the first turn of a streaming session was answered 429 and the error is
\* recorded with its status and body
C13_Witness ==
    /\ stream /\ Turn = 1 /\ calls[1].ret = "error"
    /\ err = HTTPError(429, "rate limited")
    /\ Len(history) = 1 /\ history[1].Role = "user"
    /\ processed = << >>

\* C14: with a system prompt configured, the request of the first turn (history
\* was empty at the submit) starts with the system Message, and the request
\* of every other turn holds no system Message.
C14_SystemMessageLeadsFirstRequest ==
    \A p \in DOMAIN requests :
       LET ms == requests[p].body.Messages IN
       IF p = 1 /\ Len(system) > 0
       THEN ms[1] = Message("system", system)
       ELSE \A i \in 1..Len(ms) : ms[i].Role # "system"

\* C15: the messages of the request of the current turn, after the optional
\* leading system Message, are the history as it stood before the turn
\* followed by the new user Message.
C15_RequestHoldsHistory ==
    Turn > 0
    => LET ms == requests[Turn].body.Messages
           rest == IF ms[1].Role = "system" THEN Tail(ms) ELSE ms
       IN  rest = SubSeq(history, 1, turnLen + 1)

\* C16: every request handed to the transport carries the configured
\* streaming mode in its stream flag.
C16_StreamFlagMatchesMode ==
    \A p \in DOMAIN requests :
       requests[p].sent => (requests[p].body.Stream = stream)

\* a request of a streaming session has been sent with the flag set
C16_Witness ==
    /\ stream /\ Len(requests) = 2
    /\ requests[1].sent /\ requests[1].body.Stream
    /\ requests[2].sent /\ requests[2].body.Stream

\* C17: for every call, the stream occurrences Update has processed from it are,
\* in order, the first events the call decoded: the i-th processed is the
\* i-th decoded, so none is lost in between, duplicated or reordered.
C17_EventsProcessedInWireOrder ==
    Running
    => \A p \in DOMAIN calls :
          LET own == FromCall(processed, p) IN
          /\ Len(own) <= Len(calls[p].wire)
          /\ \A i \in 1..Len(own) : /\ own[i].seq = i
                                    /\ own[i].choices = calls[p].wire[i]

\* three events of one stream were processed, a key and a too-small resize
\* having come in during the turn
C17_Witness ==
    /\ Running /\ Turn = 1 /\ Len(FromCall(processed, 1)) = 3
    /\ processed[1].choices # processed[2].choices
    /\ typed = 1 /\ err = LayoutError

\* C18: reading a line without the "data:" prefix decodes and delivers
\* nothing and the call reads on; reading "data: [DONE]" decodes and delivers
\* nothing and the call returns; a call that has returned reads no further
\* line and no event of it is delivered afterwards.
C18_CommentAndSentinelYieldNoEvent ==
    [][\A p \in 1..MaxTurns :
         /\ Scan(p, Line("comment", NoChoices))
            => /\ msgs' = msgs
               /\ calls'[p].wire = calls[p].wire
               /\ calls'[p].st = "reading"
         /\ Scan(p, Line("done", NoChoices))
            => /\ msgs' = msgs
               /\ calls'[p].wire = calls[p].wire
               /\ calls'[p].st = "returned" /\ calls'[p].ret = "nil"
         /\ (p \in DOMAIN calls /\ calls[p].st = "returned" /\ prog' = "running")
            => /\ calls'[p] = calls[p]
               /\ \A m \in NewStreamMsgs : m.turn # p]_vars

\* a stream with a line that is no data line and one event has ended, and
\* the event was processed
C18_Witness ==
    /\ stream /\ Turn = 1 /\ calls[1].st = "returned" /\ calls[1].ret = "nil"
    /\ calls[1].n = 2 /\ Len(calls[1].wire) = 1
    /\ Len(processed) = 1

\* C19: data that does not decode makes the call return at once with the
\* decode error as its one occurrence: the line adds no event, and the only
\* stream events ever handed over are events a call is in the act of sending.
C19_DecodeFailureAbortsStream ==
    [][/\ \A p \in 1..MaxTurns :
            Scan(p, Line("bad", NoChoices))
            => /\ calls'[p].st = "returned" /\ calls'[p].ret = "error"
               /\ calls'[p].wire = calls[p].wire
               /\ msgs' = msgs \cup {Msg("error", NoChoices, DecodeError, p, 0)}
       /\ \A m \in NewStreamMsgs :
            /\ calls[m.turn].st = "sending"
            /\ m.choices = calls[m.turn].ev
            /\ calls[m.turn].ret # "error"]_vars

\* after one event the stream broke on undecodable data: the event and the
\* error were both processed
C19_Witness ==
    /\ stream /\ Turn = 1 /\ calls[1].ret = "error"
    /\ Len(calls[1].wire) = 1 /\ Len(processed) = 1
    /\ err = DecodeError

\* C20: when Update processes the occurrence that completes a turn (the
\* response of a non-streaming call, or the terminal event of a stream), the
\* history file afterwards holds the whole history.
C20_CompletedTurnIsSaved ==
    [][\A m \in msgs :
         (/\ Update(m) /\ waiting /\ Len(m.choices) > 0
          /\ \/ m.type = "*CompletionResponse"
             \/ /\ m.type = "CompletionStreamResponse"
                /\ m.choices[1].FinishReason = "stop")
         => historyFile' = saveHistory(history')]_vars

\* C22: a resize leaves the session state alone: history, the scratch
\* buffer, the mode and the last error are after it what they were before
C22_ResizeKeepsSessionState ==
    [][\A h \in Heights :
         Resize(h) => UNCHANGED <<history, streamDeltas, waiting, err>>]_vars

\* C23: the quit key is taken in every state of a running program, ends the
\* program without touching the session state, and after it nothing changes
\* any more: a call in flight is left behind
C23_QuitAlwaysAcceptedAndFinal ==
    /\ [](Running => ENABLED KeyQuit)
    /\ [][KeyQuit => /\ prog' = "quit"
                     /\ UNCHANGED <<history, streamDeltas, waiting, err,
                                    textarea, historyFile, viewport>>]_vars
    /\ [][prog = "quit" => UNCHANGED vars]_vars

\* quit while a streamed reply is arriving and its call is still running
C23_Witness ==
    /\ prog = "quit"
    /\ waiting
    /\ Len(streamDeltas) > 0
    /\ Len(history) = 1
    /\ calls[1].st = "gone"

\* C24: history, the scratch buffer and the mode are written by Update
\* alone (a key or a value taken off the message channel); a step of a
\* createCompletionCmd goroutine leaves them, the last error and the view
\* alone and hands over at most one value
C24_SingleWriter ==
    [][/\ (<<history, streamDeltas, waiting>>' # <<history, streamDeltas, waiting>>)
          => (KeySend \/ \E m \in msgs : Update(m))
       /\ \A p \in 1..MaxTurns :
            (CallDo(p) \/ CallScan(p) \/ ChanSend(p))
            => /\ UNCHANGED <<history, streamDeltas, waiting, err, viewport,
                              textarea, historyFile>>
               /\ Cardinality(msgs' \ msgs) <= 1
               /\ prog' = "running" => msgs \subseteq msgs']_vars

\* a streamed turn is over: the goroutine read its body and sent two events,
\* Update wrote the reply into history
C24_Witness ==
    /\ stream
    /\ ~waiting
    /\ Len(history) = 2
    /\ calls[1].ret = "nil"
    /\ Len(calls[1].wire) = 2
    /\ Len(processed) = 2

\* C25: at most one wait for a stream event is pending, and none while no
\* turn is under way: the wait is not armed again after the terminal event
C25_AtMostOneWaitNoneWhileIdle ==
    /\ waiters <= 1
    /\ ~waiting => waiters = 0

\* the terminal event is processed while the server goes on sending: the
\* goroutine stays blocked on the channel, nobody waits
C25_Witness ==
    /\ stream
    /\ Running
    /\ ~waiting
    /\ Len(history) = 2
    /\ waiters = 0
    /\ calls[1].st = "sending"
    /\ msgs = {}

\* C26: a submit makes one request, and that request goes to the transport
\* once: the call that gets an answer of any kind does not send it again
C26_OneRequestPerSubmit ==
    [][/\ \A p \in 1..MaxTurns : \A o \in Outcomes :
            Do(p, o) => /\ ~requests[p].sent
                        /\ requests'[p].sent
                        /\ \A q \in DOMAIN requests \ {p} :
                             requests'[q] = requests[q]
                        /\ o # StatusOK /\ prog' = "running"
                           => calls'[p].st = "returned"
       /\ Len(requests') # Len(requests)
          => KeySend /\ ~waiting /\ Len(requests') = Len(requests) + 1
       /\ Len(requests') = Len(calls')]_vars

\* the one request of a turn met status 429: the error is shown, the call
\* has returned, the turn stays as it is
C26_Witness ==
    /\ Running
    /\ Len(requests) = 1
    /\ requests[1].sent
    /\ calls[1].st = "returned"
    /\ err = HTTPError(429, "rate limited")
    /\ msgs = {}

\* C28: the time limit set on the transport bounds a non-streaming call
\* only; a streaming call is made without it
C28_TimeoutOnNonStreamingOnly ==
    \A p \in DOMAIN requests :
      requests[p].sent =>
        requests[p].Timeout = (IF requests[p].body.Stream THEN 0 ELSE Timeout)

\* C29: a window too small for the layout ends the program; the error is
\* not recorded for a session that goes on
C29_TooSmallIsFatal ==
    [][\A h \in Heights :
         (Resize(h) /\ h <= 8 + textAreaHeight)
         => (prog' # "running" /\ err' = err)]_vars

\* the rendered contents and the authors a view shows, in the order shown
Contents(view) == SelectSeq(view, LAMBDA t : t[1] = "markdown")
Authors(view) == SelectSeq(view, LAMBDA t : t \in {userName, chatGPTName})

Runes == {"nl", "\\", "n"}

SavedContents == UNION { [1..n -> Runes] : n \in 0..MaxContent }

\* a session that holds some history, user and assistant Messages in turn;
\* nothing of it is under way
InitHistoryFile ==
    /\ stream = TRUE
    /\ \E n \in 0..MaxSaved : \E c \in [1..n -> SavedContents] :
         history = [i \in 1..n |->
                      Message(IF i % 2 = 1 THEN "user" ELSE "assistant", c[i])]
    /\ textarea = << >>
    /\ streamDeltas = << >>
    /\ multiline = FALSE
    /\ waiting = FALSE
    /\ err = NoError
    /\ prog = "running"
    /\ calls = << >>
    /\ waiters = 0
    /\ msgs = {}
    /\ turnLen = 0
    /\ seen = << >>
    /\ typed = 0
    /\ token = <<"k">>
    /\ system = << >>
    /\ requests = << >>
    /\ historyFile = << >>
    /\ processed = << >>
    /\ viewport = <<welcomeMessage>>
    /\ loaded = << >>
    /\ request = << >>

\* m.saveHistory() of that session
Save ==
    /\ historyFile = << >>
    /\ historyFile' = saveHistory(history)
    /\ UNCHANGED <<stream, history, textarea, streamDeltas, multiline, waiting,
                   err, prog, calls, waiters, msgs, turnLen, seen, typed,
                   token, system, requests, processed, viewport, loaded,
                   request>>

\* NewModel of a later session whose history setting names the file:
\* m.loadHistory(history)
Restore ==
    /\ historyFile # << >>
    /\ loaded = << >>
    /\ loaded' = <<loadHistory(historyFile[1])>>
    /\ UNCHANGED <<stream, history, textarea, streamDeltas, multiline, waiting,
                   err, prog, calls, waiters, msgs, turnLen, seen, typed,
                   token, system, requests, historyFile, processed, viewport,
                   request>>

NextHistoryFile == Save \/ Restore

HistoryFileSpec == InitHistoryFile /\ [][NextHistoryFile]_vars

\* C21: the history a session restores from the file another session saved
\* is the saved history: the same Messages, role and content, in the same
\* order
C21_SaveLoadRoundTrip ==
    loaded # << >> => /\ Len(loaded[1]) = Len(history)
                      /\ \A i \in 1..Len(history) :
                           /\ loaded[1][i].Role = history[i].Role
                           /\ loaded[1][i].Content = history[i].Content

\* a restored history of two Messages whose contents need escaping: a
\* backslash before the letter n, and a line break before a backslash
C21_Witness ==
    /\ loaded # << >>
    /\ Len(history) = 2
    /\ history[1].Content = <<"\\", "n">>
    /\ history[2].Content = <<"nl", "\\">>
    /\ loaded[1] = history
    /\ historyFile[1][1].content # history[1].Content

\* ------------------------------------------- package rest: Client.NewRequest
\* a URL is its origin and its path, the path a sequence of "/" and path
\* segments; a base URL is one that parses or one that does not
BaseURLs ==
    { [ok |-> TRUE, path |-> << >>],                     \* http://localhost:8080
      [ok |-> TRUE, path |-> <<"/", "v1">>],
      [ok |-> TRUE, path |-> <<"/", "v1", "/">>],
      [ok |-> FALSE, path |-> << >>] }

Paths == { <<"/", "api", "/", "test">>, <<"chat">> }

\* request options: the field each one sets and the value it was made with
\* (every value a tuple of strings)
WithMethod(method) == [field |-> "Method", value |-> <<method>>]
WithBody(body) == [field |-> "Body", value |-> <<"NopCloser", body>>]
WithHeader(header) == [field |-> "Header", value |-> header]

RequestOptions ==
    { WithMethod("POST"), WithMethod("PUT"),
      WithBody("test body"), WithBody("payload"),
      WithHeader(<<"Content-Type", "application/json">>) }

Segments(p) == SelectSeq(p, LAMBDA t : t # "/")

\* url.JoinPath: the segments of the base path and of the element, each
\* after one "/"
RECURSIVE Slashed(_)
Slashed(segments) ==
    IF Len(segments) = 0 THEN << >>
    ELSE <<"/", Head(segments)>> \o Slashed(Tail(segments))

JoinPath(baseURL, path) == Slashed(Segments(baseURL.path) \o Segments(path))

\* for _, opt := range opts { opt(req) }
RECURSIVE Apply(_, _)
Apply(req, opts) ==
    IF Len(opts) = 0 THEN req
    ELSE Apply([req EXCEPT ![Head(opts).field] = Head(opts).value], Tail(opts))

\* a Client.NewRequest that hands the request to its options last one first
RestNewRequestReversed(baseURL, path, opts) ==
    IF ~baseURL.ok THEN [err |-> <<"parse">>]
    ELSE [err |-> NoError,
          req |-> Apply([Method |-> <<"GET">>,
                         URL |-> JoinPath(baseURL, path),
                         Body |-> <<"NoBody">>,
                         Header |-> << >>],
                        [i \in 1..Len(opts) |-> opts[Len(opts) + 1 - i]])]

\* rest.Client.NewRequest
RestNewRequest(baseURL, path, opts) ==
    IF ~baseURL.ok THEN [err |-> <<"parse">>]      \* url.JoinPath fails
    ELSE [err |-> NoError,
          req |-> Apply([Method |-> <<"GET">>,         \* http.NewRequest
                         URL |-> JoinPath(baseURL, path),
                         Body |-> <<"NoBody">>,
                         Header |-> << >>],
                        opts)]

\* a client made with some base URL, about to be asked for a request
InitRest ==
    /\ stream = TRUE
    /\ history = << >>
    /\ textarea = << >>
    /\ streamDeltas = << >>
    /\ multiline = FALSE
    /\ waiting = FALSE
    /\ err = NoError
    /\ prog = "running"
    /\ calls = << >>
    /\ waiters = 0
    /\ msgs = {}
    /\ turnLen = 0
    /\ seen = << >>
    /\ typed = 0
    /\ token = <<"k">>
    /\ system = << >>
    /\ requests = << >>
    /\ historyFile = << >>
    /\ processed = << >>
    /\ viewport = <<welcomeMessage>>
    /\ loaded = << >>
    /\ \E b \in BaseURLs, p \in Paths :
         \E o \in UNION { [1..n -> RequestOptions] : n \in 0..MaxOptions } :
           request = [baseURL |-> b, path |-> p, opts |-> o, out |-> << >>]

\* client.NewRequest(path, opts...)
CallNewRequest ==
    /\ request.out = << >>
    /\ request' = [request EXCEPT
                     !.out = <<RestNewRequest(request.baseURL, request.path,
                                              request.opts)>>]
    /\ UNCHANGED <<stream, history, textarea, streamDeltas, multiline, waiting,
                   err, prog, calls, waiters, msgs, turnLen, seen, typed,
                   token, system, requests, historyFile, processed, viewport,
                   loaded>>

NextRest == CallNewRequest

RestSpec == InitRest /\ [][NextRest]_vars

\* the value the last option for a field was made with, or the default
LastSet(opts, field, default) ==
    LET at == { i \in 1..Len(opts) : opts[i].field = field }
    IN IF at = {} THEN default
       ELSE opts[CHOOSE i \in at : \A j \in at : j <= i].value

\* C27: the request NewRequest returns has the URL that joins the base URL
\* and the path with one "/" before every segment, the method GET and no
\* body or header unless an option sets it, and each field an option sets
\* holds what the last option for that field gave it
C27_NewRequestDefaultsAndOptions ==
    (request # << >> /\ request.out # << >> /\ request.baseURL.ok) =>
      LET req == request.out[1].req
          opts == request.opts
      IN /\ request.out[1].err = NoError
         /\ Segments(req.URL) =
              Segments(request.baseURL.path) \o Segments(request.path)
         /\ Len(req.URL) = 2 * Len(Segments(req.URL))
         /\ \A i \in 1..Len(req.URL) : (req.URL[i] = "/") <=> (i % 2 = 1)
         /\ req.Method = LastSet(opts, "Method", <<"GET">>)
         /\ req.Body = LastSet(opts, "Body", <<"NoBody">>)
         /\ req.Header = LastSet(opts, "Header", << >>)

\* a base URL ending in "/" joined with a path starting with "/", the
\* method set twice and the body once
C27_Witness ==
    /\ request # << >>
    /\ request.out # << >>
    /\ request.baseURL.path = <<"/", "v1", "/">>
    /\ request.path = <<"/", "api", "/", "test">>
    /\ request.opts = <<WithMethod("PUT"), WithMethod("POST")>>
    /\ request.out[1].req.Method = <<"POST">>
    /\ request.out[1].req.URL = <<"/", "v1", "/", "api", "/", "test">>
    /\ request.out[1].req.Body = <<"NoBody">>

\* --------------------------------------- properties of the session, continued
\* C31: in streaming mode, when the body of the turn's call has ended (the
\* call returned nil) and every value it handed over has been processed,
\* the turn is over: the machine is Idle, whatever the events carried
C31_EndOfBodyEndsTurn ==
    (/\ Running /\ stream /\ Turn > 0
     /\ calls[Turn].st = "returned" /\ calls[Turn].ret = "nil"
     /\ msgs = {}
     /\ \A p \in DOMAIN calls : calls[p].st = "returned")
    => ~waiting

\* C32: a stream event Update processes during a turn was sent by the call
\* of that turn
C32_EventsComeFromTheTurnsCall ==
    Running => \A i \in DOMAIN seen : seen[i].turn = Turn

\* C33: no streaming call is blocked on handing an event to the channel
\* with nobody to take it: a wait is pending, or a value on its way to
\* Update will arm one
C33_NoCallBlockedOnChannel ==
    Running =>
      \A p \in DOMAIN calls :
        calls[p].st = "sending" =>
          \/ waiters > 0
          \/ \E m \in msgs : /\ m.type = "CompletionStreamResponse"
                              /\ Len(m.choices) > 0
                              /\ m.choices[1].FinishReason # "stop"

\* C34: a read error on a streaming body reaches Update as an error value
C34_ReadErrorIsReported ==
    [][\A p \in 1..MaxTurns :
         Scan(p, Line("ioerr", NoChoices))
         => /\ calls'[p].ret = "error"
            /\ \E m \in msgs' \ msgs : m.type = "error" /\ m.turn = p]_vars

\* C35: the send key with nothing typed starts no turn: history, the
\* requests and the mode are what they were
C35_EmptySubmitStartsNoTurn ==
    [][(KeySend /\ Len(textarea) = 0)
       => UNCHANGED <<history, requests, calls, waiting>>]_vars

\* C36: what Update makes of a response or stream event with candidates is
\* decided by the first candidate: its finish reason chooses the branch,
\* its content is what the scratch buffer grows by
C36_OnlyFirstCandidateCounts ==
    [][\A m \in msgs :
         (Update(m) /\ Len(m.choices) > 0) =>
           IF m.type = "CompletionStreamResponse"
           THEN LET first == m.choices[1]
                IN IF first.FinishReason = "stop"
                   THEN /\ history' = Append(history,
                                             Message("assistant", streamDeltas))
                        /\ streamDeltas' = << >>
                        /\ ~waiting'
                   ELSE /\ history' = history
                        /\ streamDeltas' = streamDeltas \o first.Content
                        /\ waiting' = waiting
           ELSE (Len(m.choices) > 1)
                => (\A i \in 1..Len(history') :
                      \A j \in 2..Len(m.choices) :
                        history'[i] # m.choices[j].Message)]_vars

\* an event of two candidates was processed: the content of the first is
\* in the scratch buffer, the "stop" of the second did not end the turn
C36_Witness ==
    /\ Running /\ stream /\ waiting
    /\ Len(processed) = 1
    /\ Len(processed[1].choices) = 2
    /\ processed[1].choices[2].FinishReason = "stop"
    /\ streamDeltas = processed[1].choices[1].Content
    /\ Len(history) = 1

\* C37: an accepted submit puts into the request, as its last Message, the
\* user Message it appends to history, the text being the value of the
\* textarea at the key; the textarea is empty afterwards
C37_RequestTextIsHistoryText ==
    [][(KeySend /\ Len(requests') > Len(requests)) =>
         LET r == requests'[Len(requests')].body.Messages
             text == TextareaUpdate(textarea, "Send")
         IN /\ history' = Append(history, Message("user", text))
            /\ r[Len(r)] = Message("user", text)
            /\ textarea' = << >>]_vars

\* a rune was typed and sent: request and history hold it, the textarea is
\* empty
C37_Witness ==
    /\ Len(requests) = 1
    /\ typed = 1
    /\ history[1].Content = <<"h", "nl">>
    /\ requests[1].body.Messages[Len(requests[1].body.Messages)] = history[1]
    /\ textarea = << >>

\* C38: the terminal event commits the scratch buffer as it stands, the
\* concatenation of the contents of the events processed in the turn before
\* it, and empties it; what the terminal event carries is left out
C38_TerminalEventCommitsScratch ==
    [][\A m \in msgs :
         (/\ Update(m) /\ m.type = "CompletionStreamResponse"
          /\ Len(m.choices) > 0 /\ m.choices[1].FinishReason = "stop"
          /\ waiting)
         => /\ Len(history') = Len(history) + 1
            /\ history'[Len(history')] =
                 Message("assistant", CatContent(Choices(seen)))
            /\ history'[Len(history')].Content = streamDeltas
            /\ streamDeltas' = << >>]_vars

\* a terminal event carrying content was processed after one fragment: the
\* Message is the fragment alone
C38_Witness ==
    /\ stream /\ ~waiting
    /\ Len(processed) = 2
    /\ processed[2].choices[1] = StreamChoice(<<"b">>, "stop")
    /\ history[2] = Message("assistant", <<"a">>)
    /\ streamDeltas = << >>

\* C39: a recorded error stays recorded, and while one is recorded the view
\* shows the error and neither the input editor nor the spinner
C39_ErrorIsNeverCleared ==
    /\ [][err # NoError => err' # NoError]_vars
    /\ [](err # NoError => View.below = <<"error">>)

\* the window was too small once; a whole turn later the view still shows
\* the error
C39_Witness ==
    /\ Running
    /\ err = LayoutError
    /\ Len(history) = 2
    /\ ~waiting
    /\ View.below = <<"error">>
    /\ viewport = renderMessages(history)

\* C40: with multi-line mode on, the send key starts no turn: history, the
\* mode and the requests are what they were
C40_NoSubmitInMultiline ==
    [][(KeySend /\ multiline)
       => UNCHANGED <<history, waiting, requests, calls, msgs>>]_vars

\* the send key in multi-line mode put a line break into the textarea
C40_Witness ==
    /\ multiline
    /\ textarea = <<"nl">>
    /\ typed = 1
    /\ Len(history) = 0
    /\ Len(requests) = 0
    /\ ~waiting
====
